---- MODULE Spec2Model ----
(***************************************************************************)
(* Model of src/src/collector.py: the node prober (_query_node), the fleet *)
(* collector (_collect_all), the snapshot cache (_cache, _cache_lock,      *)
(* get_status, _update_cache) and the refresh scheduler (start_collector,  *)
(* _background_loop).                                                      *)
(*                                                                         *)
(* Text is a sequence of one-character strings.  An optional value is a    *)
(* sequence of length at most one: None is <<>>, a present value v is      *)
(* <<v>>.                                                                  *)
(***************************************************************************)
EXTENDS Integers, Sequences, FiniteSets, TLC

\* ------------------------------------------------------------------ bounds
MaxNodes == 2
NumReaders == 2
MaxTime == 2
\* longest text after the marker that the prober is given, in characters
MaxTail == 3

\* ------------------------------------------------------- program constants
\* min(20, len(NODES) * 2): the literal 20 of line 108
PoolCap == 20
\* the [:200] of lines 77, 100 and 115
MsgLimit == 200

\* ------------------------------------------------------------ text helpers
None == <<>>
Some(v) == <<v>>

Whitespace == {" ", "\n", "\t"}
Digits == {"0", "1", "2", "3", "4", "5", "6", "7", "8", "9"}

Min(a, b) == IF a < b THEN a ELSE b

\* s[:n] without the cut
TakeAll(s, n) == s

\* s[:n]
Take(s, n) == SubSeq(s, 1, Min(Len(s), n))

\* str.strip(chars): drop the leading and trailing characters that are in cs
StripChars(s, cs) ==
    LET keep == {i \in 1..Len(s) : s[i] \notin cs}
    IN  IF keep = {} THEN <<>>
        ELSE LET lo == CHOOSE i \in keep : \A j \in keep : i <= j
                 hi == CHOOSE i \in keep : \A j \in keep : j <= i
             IN  SubSeq(s, lo, hi)

\* str.strip()
Strip(s) == StripChars(s, Whitespace)

\* index of the first occurrence of m in s, 0 when there is none
Find(s, m) ==
    LET hits == {i \in 1..(Len(s) - Len(m) + 1) : SubSeq(s, i, i + Len(m) - 1) = m}
    IN  IF hits = {} THEN 0 ELSE CHOOSE i \in hits : \A j \in hits : i <= j

\* str.split(c) for a one-character separator: always at least one piece
RECURSIVE SplitChar(_, _)
SplitChar(s, c) ==
    LET i == Find(s, <<c>>)
    IN  IF i = 0 THEN <<s>>
        ELSE <<SubSeq(s, 1, i - 1)>> \o SplitChar(SubSeq(s, i + 1, Len(s)), c)

\* the sentinel marker '---USERS---' of lines 33, 35, 49 and 79
Marker == <<"-", "-", "-", "U", "S", "E", "R", "S", "-", "-", "-">>

\* output.split("---USERS---", 1): one piece without the marker, else two
SplitMarkerOnce(s) ==
    LET i == Find(s, Marker)
    IN  IF i = 0 THEN <<s>>
        ELSE <<SubSeq(s, 1, i - 1), SubSeq(s, i + Len(Marker), Len(s))>>

\* stdout.split("---USERS---")[0]
BeforeMarker(s) == SplitMarkerOnce(s)[1]

\* [f(x) for x in xs if p(x)] with f = strip and p = non-empty after strip
RECURSIVE StripAndDropEmpty(_)
StripAndDropEmpty(xs) ==
    IF xs = <<>> THEN <<>>
    ELSE LET u == Strip(Head(xs))
         IN  (IF u = <<>> THEN <<>> ELSE <<u>>) \o StripAndDropEmpty(Tail(xs))

\* _parse_users with line 41 keeping the tokens that are empty once trimmed
ParseUsersUnfiltered(output) ==
    IF Find(output, Marker) = 0 THEN <<>>
    ELSE LET raw == StripChars(Strip(SplitMarkerOnce(output)[2]), {","})
             xs == SplitChar(raw, ",")
         IN  IF raw = <<>> THEN <<>>
             ELSE [i \in 1..Len(xs) |-> Strip(xs[i])]

\* _parse_users (lines 31-41)
ParseUsers(output) ==
    IF Find(output, Marker) = 0 THEN <<>>
    ELSE LET parts == SplitMarkerOnce(output)
         IN  IF Len(parts) < 2 THEN <<>>
             ELSE LET raw == StripChars(Strip(parts[2]), {","})
                  IN  IF raw = <<>> THEN <<>>
                      ELSE StripAndDropEmpty(SplitChar(raw, ","))

\* int(text) for a non-empty run of decimal digits
DigitVal(c) == CHOOSE d \in 0..9 : <<"0", "1", "2", "3", "4", "5", "6", "7", "8", "9">>[d + 1] = c

RECURSIVE ToInt(_)
ToInt(t) == IF t = <<>> THEN 0 ELSE 10 * ToInt(SubSeq(t, 1, Len(t) - 1)) + DigitVal(t[Len(t)])

IsNumber(t) == t # <<>> /\ \A i \in 1..Len(t) : t[i] \in Digits

\* one metrics row: index, name, utilization, memory used, memory total,
\* temperature; a row that does not have that shape is rejected
RowFields(line) == StripAndDropEmpty(SplitChar(line, ","))

RowOk(line) ==
    LET f == RowFields(line)
    IN  /\ Len(f) = 6
        /\ \A k \in {1, 3, 4, 5, 6} : IsNumber(f[k])

RowInfo(line) ==
    LET f == RowFields(line)
    IN  [index |-> ToInt(f[1]), name |-> f[2], utilization |-> ToInt(f[3]),
         memory_used_mb |-> ToInt(f[4]), memory_total_mb |-> ToInt(f[5]),
         temperature_c |-> ToInt(f[6])]

RECURSIVE ParseRows(_)
ParseRows(lines) ==
    IF lines = <<>> THEN <<>>
    ELSE (IF RowOk(Head(lines)) THEN <<RowInfo(Head(lines))>> ELSE <<>>)
         \o ParseRows(Tail(lines))

\* parse_nvidia_smi_output of .parser (line 18): one GPUInfo per reporting
\* accelerator, in the order listed
ParseNvidiaSmiOutput(text) == ParseRows(SplitChar(text, "\n"))

\* the dict built for one GPUInfo (lines 85-92)
GpuDict(g) ==
    [index |-> g.index, name |-> g.name, utilization |-> g.utilization,
     memory_used |-> g.memory_used_mb, memory_total |-> g.memory_total_mb,
     temperature |-> g.temperature_c]

\* NodeStatus (lines 21-28): gpus and users default to the empty list,
\* message to None
NodeStatus(status, gpus, users, message) ==
    [status |-> status, gpus |-> gpus, users |-> users, message |-> message]

ConnectionTimeout ==
    <<"C", "o", "n", "n", "e", "c", "t", "i", "o", "n", " ",
      "t", "i", "m", "e", "o", "u", "t">>

NvidiaSmiFailed ==
    <<"n", "v", "i", "d", "i", "a", "-", "s", "m", "i", " ",
      "f", "a", "i", "l", "e", "d">>

\* x or y on text and lists: y when x is empty
OrElse(x, y) == IF x # <<>> THEN x ELSE y

\* lines 78-96 with an exception of parse_nvidia_smi_output swallowed: the
\* node is reported as reachable, without GPU records
QueryNodeParsedLenient(o) ==
    NodeStatus("ok", <<>>, ParseUsers(o.stdout), None)

\* lines 78-96, and line 100 when parse_nvidia_smi_output raises: the
\* parsing of the output of a command that exited with status 0
QueryNodeParsed(o) ==
    IF o.perr # None
    THEN NodeStatus("error", <<>>, <<>>, Some(Take(o.perr[1], MsgLimit)))
    ELSE LET gpu_output == Strip(BeforeMarker(o.stdout))
             users == ParseUsers(o.stdout)
             gpus == ParseNvidiaSmiOutput(gpu_output)
         IN  NodeStatus("ok", [i \in 1..Len(gpus) |-> GpuDict(gpus[i])], users, None)

\* lines 75-77 without the fallback to standard output
QueryNodeFailedStderrOnly(o) ==
    NodeStatus("error", <<>>, <<>>,
               Some(OrElse(Take(Strip(o.stderr), MsgLimit), NvidiaSmiFailed)))

\* lines 75-77: the command exited with a non-zero status
QueryNodeFailed(o) ==
    LET stderr == OrElse(Strip(o.stderr), Strip(o.stdout))
    IN  NodeStatus("error", <<>>, <<>>,
                   Some(OrElse(Take(stderr, MsgLimit), NvidiaSmiFailed)))

\* _query_node with the TimeoutExpired handler missing: the timeout falls to
\* the handler for Exception
QueryNodeNoTimeoutHandler(o) ==
    IF o.kind \in {"timeout", "exception"}
    THEN NodeStatus("error", <<>>, <<>>, Some(Take(o.desc, MsgLimit)))
    ELSE IF o.returncode # 0
    THEN QueryNodeFailed(o)
    ELSE QueryNodeParsed(o)

\* _query_node (lines 68-100) applied to what subprocess.run did:
\*   kind "completed": it returned (returncode, stdout, stderr)
\*   kind "timeout":   it raised subprocess.TimeoutExpired
\*   kind "exception": it raised another Exception whose str() is desc
\* and, for a command that exited with status 0, to what
\* parse_nvidia_smi_output did: perr is None, or the str() of the Exception
\* it raised
QueryNode(o) ==
    IF o.kind = "timeout"
    THEN NodeStatus("error", <<>>, <<>>, Some(ConnectionTimeout))
    ELSE IF o.kind = "exception"
    THEN NodeStatus("error", <<>>, <<>>, Some(Take(o.desc, MsgLimit)))
    ELSE IF o.returncode # 0
    THEN QueryNodeFailed(o)
    ELSE QueryNodeParsed(o)

\* f with key k set to v (dict item assignment)
Put(f, k, v) == [x \in (DOMAIN f) \cup {k} |-> IF x = k THEN v ELSE f[x]]

\* the empty dict {}
EmptyDict == [k \in {} |-> None]

\* ------------------------------------------------- what one probe can meet
Text0 == <<>>
Row0 == <<"0", ",", "T", "4", ",", "3", "5", ",", "1", "0", ",", "1", "6", ",", "5", "5">>
Row1 == <<"1", ",", "T", "4", ",", "0", ",", "0", ",", "1", "6", ",", "4", "0">>
Alice == <<"a", "l", "i", "c", "e">>
Denied == <<"d", "e", "n", "i", "e", "d">>
NoRoute == <<"n", "o", " ", "r", "o", "u", "t", "e">>
Boom == <<"b", "o", "o", "m">>
TimedOut == <<"t", "i", "m", "e", "d", " ", "o", "u", "t">>

Completed(rc, out, err) ==
    [kind |-> "completed", returncode |-> rc, stdout |-> out, stderr |-> err,
     desc |-> Text0, perr |-> None]

\* exit status 0, two metric rows, the marker, one user
OutOk == Completed(0, Row0 \o <<"\n">> \o Row1 \o <<"\n">> \o Marker \o <<"\n">> \o Alice \o <<",">>, Text0)
\* exit status 255 with a diagnostic on standard error
OutFail == Completed(255, Text0, Denied \o <<"\n">>)
\* subprocess.TimeoutExpired
Raised(kind, desc) ==
    [kind |-> kind, returncode |-> 0, stdout |-> Text0, stderr |-> Text0,
     desc |-> desc, perr |-> None]
OutTimeout == Raised("timeout", TimedOut)
\* another exception raised by subprocess.run
OutException == Raised("exception", NoRoute)
\* the task fails outside _query_node's own handlers
OutCrash == Raised("crash", Boom)

AllOutcomes == {OutOk, OutFail, OutTimeout, OutException, OutCrash}
\* the outcomes the probes of the running system are given
SysOutcomes == {OutOk, OutTimeout}

\* a text one character longer than the message limit
LongText == [i \in 1..(MsgLimit + 1) |-> IF i <= MsgLimit THEN "x" ELSE "y"]
\* what a stream of a failed command holds: nothing, whitespace only, a
\* diagnostic with whitespace around it, a diagnostic beyond the limit
Streams == {Text0, <<"\n", " ">>, <<" ">> \o Denied \o <<"\n">>, LongText}
\* the texts that follow the marker: every text of at most MaxTail characters
\* over a letter, the comma and the blank, the list "alice,bob,,  carol ,",
\* and a text that holds the marker a second time
TailAlphabet == {"a", ",", " "}
ShortTails == UNION {[1..k -> TailAlphabet] : k \in 0..MaxTail}
ListTail ==
    Alice \o <<",", "b", "o", "b", ",", ",", " ", " ">>
          \o <<"c", "a", "r", "o", "l", " ", ",">>
SecondMarkerTail == <<"a", ",">> \o Marker \o <<"b", "\n">>
Tails == ShortTails \cup {ListTail, SecondMarkerTail}
\* what precedes the marker: nothing, or one metric row
Heads == {Text0, Row0 \o <<"\n">>}
\* an output <<head, tail>> with the marker between its two parts
MarkedOutputs == Heads \X Tails
WithMarker(ht) == ht[1] \o Marker \o ht[2]
\* outputs without the marker
UnmarkedOutputs == {Text0, Row0 \o <<"\n">>, Alice \o <<",", "b">>}
\* parse_nvidia_smi_output raising an Exception whose str() is desc
ParseRaised(out, desc) == [Completed(0, out, Text0) EXCEPT !.perr = Some(desc)]
\* the descriptions an exception carries: none, a short one, one beyond the limit
Descs == {Text0, NoRoute, LongText}
\* the outcomes one probe is given when _query_node is examined alone
ProbeOutcomes ==
    {Completed(0, WithMarker(ht), Text0) : ht \in MarkedOutputs}
        \cup {Completed(0, out, Text0) : out \in UnmarkedOutputs}
        \cup {Completed(1, out, err) : out \in Streams, err \in Streams}
        \cup {Raised(k, d) : k \in {"timeout", "exception", "crash"}, d \in Descs}
        \cup {ParseRaised(OutOk.stdout, d) : d \in Descs}

\* ------------------------------------------------------------------- state
NodeNames == <<"A", "B", "C", "D">>
ReaderNames == <<"r1", "r2", "r3", "r4">>
Readers == {ReaderNames[i] : i \in 1..NumReaders}
\* the two threads that call _update_cache
Updaters == {"main", "bg"}
Times == 1..MaxTime

VARIABLES
    NODES,      \* config.NODES (line 10), fixed for the life of the process
    cache,      \* _cache (line 120)
    cache_lock, \* _cache_lock (line 121): "free" or the thread holding it
    pc,         \* where each of the threads main and bg is
    idx,        \* _collect_all: position of the submit loop in NODES
    fut,        \* _collect_all: futures, node -> [st, out]
    data,       \* _collect_all: data (line 107)
    result,     \* _update_cache: result (line 146)
    rpc,        \* where each reader thread is in get_status
    ret,        \* history: what the reader's last get_status call returned, when
                \* that call is later than the last publication; None otherwise
    published   \* history: the snapshot of the last publication, None before it

vars == <<NODES, cache, cache_lock, pc, idx, fut, data, result, rpc, ret, published>>

\* ThreadPoolExecutor(max_workers=min(20, len(NODES) * 2)) (line 108)
MaxWorkers == Min(PoolCap, Len(NODES) * 2)

NodeSet == {NODES[i] : i \in 1..Len(NODES)}

\* {"last_updated": None, "nodes": {}} (line 129)
Sentinel == [last_updated |-> None, nodes |-> EmptyDict]

\* datetime.now(timezone.utc).isoformat(): text that names the instant
IsoFormat(now) == <<"T", now>>

\* future.result(): the value, or the exception the task ended with
FutureRaises(f) == f.out[1].kind = "crash"
FutureValue(f) == QueryNode(f.out[1])

\* lines 112-115: what is stored for a finished future
Collected(f) ==
    IF FutureRaises(f)
    THEN NodeStatus("error", <<>>, <<>>, Some(Take(f.out[1].desc, MsgLimit)))
    ELSE FutureValue(f)

\* lines 146-157 with the nodes that did not answer left out
BuildResultOkOnly(d, now) ==
    [last_updated |-> IsoFormat(now),
     nodes |-> [n \in {m \in DOMAIN d : d[m].status = "ok"} |->
                  [status |-> d[n].status, gpus |-> d[n].gpus,
                   users |-> OrElse(d[n].users, <<>>), message |-> d[n].message]]]

\* lines 146-157
BuildResult(d, now) ==
    [last_updated |-> IsoFormat(now),
     nodes |-> [n \in DOMAIN d |->
                  [status |-> d[n].status, gpus |-> d[n].gpus,
                   users |-> OrElse(d[n].users, <<>>), message |-> d[n].message]]]

\* dict(_cache) (line 128): a new dict with the same items
DictCopy(d) == [k \in DOMAIN d |-> d[k]]

\* get_status, the body under the lock (lines 127-129)
GetStatusValue(c) == IF DOMAIN c # {} THEN DictCopy(c) ELSE Sentinel

\* probes of updater t that are executing on a pool thread
InFlight(t) == {n \in DOMAIN fut[t] : fut[t][n].st = "running"}
\* probes of updater t that have not finished
Unfinished(t) == {n \in DOMAIN fut[t] : fut[t][n].st \in {"queued", "running"}}

Init ==
    /\ NODES \in {SubSeq(NodeNames, 1, k) : k \in 0..MaxNodes}
    /\ cache = EmptyDict
    /\ cache_lock = "free"
    /\ pc = [t \in Updaters |-> IF t = "main" THEN "start" ELSE "unstarted"]
    /\ idx = [t \in Updaters |-> 0]
    /\ fut = [t \in Updaters |-> EmptyDict]
    /\ data = [t \in Updaters |-> EmptyDict]
    /\ result = [t \in Updaters |-> EmptyDict]
    /\ rpc = [r \in Readers |-> "idle"]
    /\ ret = [r \in Readers |-> None]
    /\ published = None

ReaderVars == <<rpc, ret>>
CollectVars == <<idx, fut, data>>

\* ---------------------------------------------------------- _update_cache
\* _update_cache taking _cache_lock around the whole body
UpdateCacheEnterLocked(t) ==
    /\ cache_lock = "free"
    /\ cache_lock' = t
    /\ pc' = [pc EXCEPT ![t] = "pool"]
    /\ data' = [data EXCEPT ![t] = EmptyDict]
    /\ fut' = [fut EXCEPT ![t] = EmptyDict]
    /\ idx' = [idx EXCEPT ![t] = 0]
    /\ UNCHANGED <<NODES, cache, result, ReaderVars, published>>

\* entry of _update_cache into _collect_all: data = {} (lines 145, 107)
UpdateCacheEnter(t) ==
    /\ pc' = [pc EXCEPT ![t] = "pool"]
    /\ data' = [data EXCEPT ![t] = EmptyDict]
    /\ fut' = [fut EXCEPT ![t] = EmptyDict]
    /\ idx' = [idx EXCEPT ![t] = 0]
    /\ UNCHANGED <<NODES, cache, cache_lock, result, ReaderVars, published>>

\* start_collector without line 164: the first collection is left to the loop
StartCollectorNoInitial ==
    /\ pc["main"] = "start"
    /\ pc' = [pc EXCEPT !["main"] = "returned", !["bg"] = "sleep"]
    /\ UNCHANGED <<NODES, cache, cache_lock, CollectVars, result, ReaderVars, published>>

\* start_collector with lines 165-166 moved before line 164
StartCollectorThreadFirst ==
    /\ pc["main"] = "start"
    /\ pc' = [pc EXCEPT !["main"] = "pool", !["bg"] = "sleep"]
    /\ data' = [data EXCEPT !["main"] = EmptyDict]
    /\ fut' = [fut EXCEPT !["main"] = EmptyDict]
    /\ idx' = [idx EXCEPT !["main"] = 0]
    /\ UNCHANGED <<NODES, cache, cache_lock, result, ReaderVars, published>>

\* start_collector calls _update_cache (line 164)
StartCollector ==
    /\ pc["main"] = "start"
    /\ UpdateCacheEnter("main")

\* _background_loop: time.sleep returns, _update_cache is called (135-137)
BgSleep ==
    /\ pc["bg"] = "sleep"
    /\ UpdateCacheEnter("bg")

\* line 108: the executor is created; max_workers = 0 raises ValueError
PoolCreate(t) ==
    /\ pc[t] = "pool"
    /\ IF MaxWorkers <= 0
       THEN pc' = [pc EXCEPT ![t] = "raise"] /\ idx' = idx
       ELSE pc' = [pc EXCEPT ![t] = "submit"] /\ idx' = [idx EXCEPT ![t] = 1]
    /\ UNCHANGED <<NODES, cache, cache_lock, fut, data, result, ReaderVars, published>>

\* line 109: ex.submit(_query_node, node) for the next node of NODES
Submit(t) ==
    /\ pc[t] = "submit"
    /\ idx[t] <= Len(NODES)
    /\ fut' = [fut EXCEPT ![t] = Put(@, NODES[idx[t]], [st |-> "queued", out |-> None])]
    /\ idx' = [idx EXCEPT ![t] = @ + 1]
    /\ pc' = [pc EXCEPT ![t] = IF idx[t] = Len(NODES) THEN "await" ELSE "submit"]
    /\ UNCHANGED <<NODES, cache, cache_lock, data, result, ReaderVars, published>>

\* line 109: ex.submit raises (a worker thread cannot be started); the with
\* block is left through the exception
SubmitFail(t) ==
    /\ pc[t] = "submit"
    /\ idx[t] <= Len(NODES)
    /\ pc' = [pc EXCEPT ![t] = "abort"]
    /\ UNCHANGED <<NODES, cache, cache_lock, CollectVars, result, ReaderVars, published>>

\* a pool thread takes a queued probe: at most max_workers run at a time
ProbeStart(t, n) ==
    /\ n \in DOMAIN fut[t]
    /\ fut[t][n].st = "queued"
    /\ Cardinality(InFlight(t)) < MaxWorkers
    /\ fut' = [fut EXCEPT ![t][n].st = "running"]
    /\ UNCHANGED <<NODES, cache, cache_lock, pc, idx, data, result, ReaderVars, published>>

\* the probe of node n ends: subprocess.run did o
ProbeFinish(t, n, o) ==
    /\ n \in DOMAIN fut[t]
    /\ fut[t][n].st = "running"
    /\ fut' = [fut EXCEPT ![t][n] = [st |-> "done", out |-> Some(o)]]
    /\ UNCHANGED <<NODES, cache, cache_lock, pc, idx, data, result, ReaderVars, published>>

\* lines 110-115 with the handler of line 114 storing nothing
CollectDropRaised(t, n) ==
    /\ pc[t] = "await"
    /\ n \in DOMAIN fut[t]
    /\ fut[t][n].st = "done"
    /\ data' = [data EXCEPT ![t] = IF FutureRaises(fut[t][n]) THEN @
                                   ELSE Put(@, n, FutureValue(fut[t][n]))]
    /\ fut' = [fut EXCEPT ![t][n].st = "yielded"]
    /\ UNCHANGED <<NODES, cache, cache_lock, pc, idx, result, ReaderVars, published>>

\* lines 110-115: as_completed yields a finished future, its result is stored
\* lines 110-115 storing each result under the next configured node in the
\* order of completion instead of under futures[future]
CollectByArrival(t, n) ==
    /\ pc[t] = "await"
    /\ n \in DOMAIN fut[t]
    /\ fut[t][n].st = "done"
    /\ data' = [data EXCEPT ![t] =
                    Put(@, NODES[Cardinality(DOMAIN @) + 1], Collected(fut[t][n]))]
    /\ fut' = [fut EXCEPT ![t][n].st = "yielded"]
    /\ UNCHANGED <<NODES, cache, cache_lock, pc, idx, result, ReaderVars, published>>

Collect(t, n) ==
    /\ pc[t] = "await"
    /\ n \in DOMAIN fut[t]
    /\ fut[t][n].st = "done"
    /\ data' = [data EXCEPT ![t] = Put(@, n, Collected(fut[t][n]))]
    /\ fut' = [fut EXCEPT ![t][n].st = "yielded"]
    /\ UNCHANGED <<NODES, cache, cache_lock, pc, idx, result, ReaderVars, published>>

\* as_completed is exhausted, the with block ends, data is returned (116)
CollectReturn(t) ==
    /\ pc[t] = "await"
    /\ \A n \in DOMAIN fut[t] : fut[t][n].st = "yielded"
    /\ pc' = [pc EXCEPT ![t] = "build"]
    /\ UNCHANGED <<NODES, cache, cache_lock, CollectVars, result, ReaderVars, published>>

\* the with block left through an exception: shutdown(wait=True) returns
\* once the probes already submitted have finished, then the exception
\* leaves _collect_all
Abort(t) ==
    /\ pc[t] = "abort"
    /\ Unfinished(t) = {}
    /\ pc' = [pc EXCEPT ![t] = "raise"]
    /\ UNCHANGED <<NODES, cache, cache_lock, CollectVars, result, ReaderVars, published>>

\* lines 146-157: the snapshot is built, stamped with the wall clock
Build(t, now) ==
    /\ pc[t] = "build"
    /\ result' = [result EXCEPT ![t] = BuildResult(data[t], now)]
    /\ pc' = [pc EXCEPT ![t] = "acquire"]
    /\ UNCHANGED <<NODES, cache, cache_lock, CollectVars, ReaderVars, published>>

\* line 158: with _cache_lock
Acquire(t) ==
    /\ pc[t] = "acquire"
    /\ cache_lock = "free"
    /\ cache_lock' = t
    /\ pc' = [pc EXCEPT ![t] = "swap"]
    /\ UNCHANGED <<NODES, cache, CollectVars, result, ReaderVars, published>>

\* the cache updated in place, one field at a time, the second update lost
PublishedInPlace(c, res) ==
    IF DOMAIN c = {} THEN res
    ELSE [last_updated |-> res.last_updated, nodes |-> c.nodes]

\* the value line 159 binds to _cache
Published(c, res) == res

\* line 159, the lock is released, _update_cache returns to its caller
Swap(t) ==
    /\ pc[t] = "swap"
    /\ cache' = Published(cache, result[t])
    /\ published' = Some(result[t])
    /\ ret' = [r \in Readers |-> None]
    /\ cache_lock' = "free"
    /\ pc' = [pc EXCEPT ![t] = IF t = "main" THEN "spawn" ELSE "sleep"]
    /\ idx' = [idx EXCEPT ![t] = 0]
    /\ fut' = [fut EXCEPT ![t] = EmptyDict]
    /\ data' = [data EXCEPT ![t] = EmptyDict]
    /\ result' = [result EXCEPT ![t] = EmptyDict]
    /\ UNCHANGED <<NODES, rpc>>

\* the locals of the abandoned call are gone
DropLocals(t) ==
    /\ idx' = [idx EXCEPT ![t] = 0]
    /\ fut' = [fut EXCEPT ![t] = EmptyDict]
    /\ data' = [data EXCEPT ![t] = EmptyDict]
    /\ result' = [result EXCEPT ![t] = EmptyDict]

\* start_collector with the initial refresh wrapped in the handler of the
\* background loop: the exception is swallowed and the thread is started
StartCollectorSwallow ==
    /\ pc["main"] = "raise"
    /\ pc' = [pc EXCEPT !["main"] = "spawn"]
    /\ DropLocals("main")
    /\ UNCHANGED <<NODES, cache, cache_lock, ReaderVars, published>>

\* start_collector has no handler: the exception reaches its caller and
\* lines 165-166 are not run
StartCollectorRaise ==
    /\ pc["main"] = "raise"
    /\ pc' = [pc EXCEPT !["main"] = "failed"]
    /\ DropLocals("main")
    /\ UNCHANGED <<NODES, cache, cache_lock, ReaderVars, published>>

\* _background_loop without the handler: the exception ends the thread
AfterExceptDead == "dead"

\* where _background_loop is after except Exception: pass (lines 138-139)
AfterExcept == "sleep"

\* _background_loop: the exception is swallowed, the loop goes on
\* lines 137-139 with a handler that empties the cache after a failed refresh
BgSwallowClear ==
    /\ pc["bg"] = "raise"
    /\ pc' = [pc EXCEPT !["bg"] = AfterExcept]
    /\ DropLocals("bg")
    /\ cache' = EmptyDict
    /\ UNCHANGED <<NODES, cache_lock, ReaderVars, published>>

BgSwallow ==
    /\ pc["bg"] = "raise"
    /\ pc' = [pc EXCEPT !["bg"] = AfterExcept]
    /\ DropLocals("bg")
    /\ UNCHANGED <<NODES, cache, cache_lock, ReaderVars, published>>

\* lines 165-166: the daemon thread is started, start_collector returns
SpawnThread ==
    /\ pc["main"] = "spawn"
    /\ pc' = [pc EXCEPT !["main"] = "returned", !["bg"] = "sleep"]
    /\ UNCHANGED <<NODES, cache, cache_lock, CollectVars, result, ReaderVars, published>>

\* -------------------------------------------------------------- get_status
\* line 126: with _cache_lock
GsAcquire(r) ==
    /\ rpc[r] = "idle"
    /\ cache_lock = "free"
    /\ cache_lock' = r
    /\ rpc' = [rpc EXCEPT ![r] = "locked"]
    /\ UNCHANGED <<NODES, cache, pc, CollectVars, result, ret, published>>

\* get_status handing the snapshot over and emptying the cache
GsReadConsume(r) ==
    /\ rpc[r] = "locked"
    /\ ret' = [ret EXCEPT ![r] = Some(GetStatusValue(cache))]
    /\ cache' = EmptyDict
    /\ cache_lock' = "free"
    /\ rpc' = [rpc EXCEPT ![r] = "idle"]
    /\ UNCHANGED <<NODES, pc, CollectVars, result, published>>

\* lines 127-129: the value is taken, the lock released, the call returns
GsRead(r) ==
    /\ rpc[r] = "locked"
    /\ ret' = [ret EXCEPT ![r] = Some(GetStatusValue(cache))]
    /\ cache_lock' = "free"
    /\ rpc' = [rpc EXCEPT ![r] = "idle"]
    /\ UNCHANGED <<NODES, cache, pc, CollectVars, result, published>>

\* ------------------------------------------- what a reader does afterwards
\* f without key k (dict.pop)
Remove(f, k) == [x \in (DOMAIN f) \ {k} |-> f[x]]
\* the time stamp a reader writes over last_updated
Scribble == IsoFormat(0)

\* the reader assigns to the "last_updated" key of the dict it was returned:
\* line 128 returned dict(_cache), a new dict, so only its own value changes
ReaderSetsLastUpdated(r) ==
    /\ ret[r] # None
    /\ ret[r][1].last_updated # Scribble
    /\ ret' = [ret EXCEPT ![r] = Some([@[1] EXCEPT !.last_updated = Scribble])]
    /\ UNCHANGED <<NODES, cache, cache_lock, pc, CollectVars, result, rpc, published>>

\* the reader pops node n from the "nodes" mapping of the dict it was
\* returned: dict(_cache) copies the top level only, so that mapping is the
\* one object the cache and every value returned since the publication hold
ReaderPopsNode(r, n) ==
    /\ published # None
    /\ ret[r] # None
    /\ n \in DOMAIN ret[r][1].nodes
    /\ cache' = [cache EXCEPT !.nodes = Remove(@, n)]
    /\ ret' = [q \in Readers |->
                 IF ret[q] = None THEN None
                 ELSE Some([ret[q][1] EXCEPT !.nodes = Remove(@, n)])]
    /\ UNCHANGED <<NODES, cache_lock, pc, CollectVars, result, rpc, published>>

\* ------------------------------------------------------------ specification
Next ==
    \/ StartCollector
    \/ BgSleep
    \/ \E t \in Updaters : PoolCreate(t)
    \/ \E t \in Updaters : Submit(t)
    \/ \E t \in Updaters : SubmitFail(t)
    \/ \E t \in Updaters, n \in NodeSet : ProbeStart(t, n)
    \/ \E t \in Updaters, n \in NodeSet, o \in SysOutcomes : ProbeFinish(t, n, o)
    \/ \E t \in Updaters, n \in NodeSet : Collect(t, n)
    \/ \E t \in Updaters : CollectReturn(t)
    \/ \E t \in Updaters : Abort(t)
    \/ \E t \in Updaters, now \in Times : Build(t, now)
    \/ \E t \in Updaters : Acquire(t)
    \/ \E t \in Updaters : Swap(t)
    \/ StartCollectorRaise
    \/ BgSwallow
    \/ SpawnThread
    \/ \E r \in Readers : GsAcquire(r)
    \/ \E r \in Readers : GsRead(r)

Spec == Init /\ [][Next]_vars

\* one call of _collect_all, its probes meeting every kind of outcome
NextCollect ==
    \/ StartCollector
    \/ PoolCreate("main")
    \/ Submit("main")
    \/ SubmitFail("main")
    \/ \E n \in NodeSet : ProbeStart("main", n)
    \/ \E n \in NodeSet, o \in AllOutcomes : ProbeFinish("main", n, o)
    \/ \E n \in NodeSet : Collect("main", n)
    \/ CollectReturn("main")
    \/ Abort("main")

SpecCollect == Init /\ [][NextCollect]_vars

\* the first refresh of a one-node dashboard, its probe meeting every
\* outcome of ProbeOutcomes, up to the publication of the snapshot
InitProbe == Init /\ Len(NODES) = 1
NextProbe ==
    \/ StartCollector
    \/ PoolCreate("main")
    \/ Submit("main")
    \/ \E n \in NodeSet : ProbeStart("main", n)
    \/ \E n \in NodeSet, o \in ProbeOutcomes : ProbeFinish("main", n, o)
    \/ \E n \in NodeSet : Collect("main", n)
    \/ CollectReturn("main")
    \/ \E now \in Times : Build("main", now)
    \/ Acquire("main")
    \/ Swap("main")

SpecProbe == InitProbe /\ [][NextProbe]_vars

\* the first refresh and readers that also modify what they were returned
NextMutate ==
    \/ StartCollector
    \/ PoolCreate("main")
    \/ Submit("main")
    \/ \E n \in NodeSet : ProbeStart("main", n)
    \/ \E n \in NodeSet, o \in SysOutcomes : ProbeFinish("main", n, o)
    \/ \E n \in NodeSet : Collect("main", n)
    \/ CollectReturn("main")
    \/ \E now \in Times : Build("main", now)
    \/ Acquire("main")
    \/ Swap("main")
    \/ \E r \in Readers : GsAcquire(r)
    \/ \E r \in Readers : GsRead(r)
    \/ \E r \in Readers : ReaderSetsLastUpdated(r)
    \/ \E r \in Readers, n \in NodeSet : ReaderPopsNode(r, n)

SpecMutate == Init /\ [][NextMutate]_vars

\* the scheduler runs the background thread: a caught exception is handled
\* and time.sleep returns
FairSpec == Spec /\ WF_vars(BgSwallow) /\ WF_vars(BgSleep)

\* ------------------------------------------------------------------ claims
\* the program points of _update_cache, from its entry to its return or raise
UpdatePoints == {"pool", "submit", "await", "abort", "build", "acquire", "swap", "raise"}
\* the program points of _collect_all
CollectPoints == {"pool", "submit", "await", "abort"}
InUpdate(t) == pc[t] \in UpdatePoints
InCollect(t) == pc[t] \in CollectPoints
OutcomeOf(t, n) == fut[t][n].out[1]

\* C1: whenever _collect_all returns, the keys of the mapping it returns are
\* exactly the configured node identifiers, whatever the probes' outcomes.
C1_CollectAllKeys ==
    \A t \in Updaters :
        pc[t] = "build" =>
            /\ DOMAIN data[t] = NodeSet
            /\ Cardinality(DOMAIN data[t]) = Len(NODES)
            /\ \A n \in NodeSet : data[t][n].status \in {"ok", "error"}

\* C1 witness: _collect_all has returned for two nodes, one probe having
\* raised and the other having exited non-zero
C1_Witness ==
    /\ pc["main"] = "build"
    /\ Len(NODES) = 2
    /\ DOMAIN fut["main"] = NodeSet
    /\ OutcomeOf("main", NODES[1]).kind = "crash"
    /\ OutcomeOf("main", NODES[2]) = OutFail

\* C2 (as claimed): _collect_all never raises, for a node set of any size.
C2_CollectAllNeverRaises ==
    \A t \in Updaters : pc[t] # "raise"

\* C3: before any publication get_status returns the no-data value; after a
\* publication it returns a snapshot with a non-null last_updated and one
\* nodes entry per configured node.  Stated of the value get_status returns
\* in the current state and of every value returned since the last
\* publication.
C3_StatusShape(v) ==
    IF published = None
    THEN v = Sentinel
    ELSE v.last_updated # None /\ DOMAIN v.nodes = NodeSet

C3_ReadsFollowPublication ==
    /\ C3_StatusShape(GetStatusValue(cache))
    /\ \A r \in Readers : ret[r] # None => C3_StatusShape(ret[r][1])

\* C3 witness: a reader has been returned a published snapshot of two nodes
C3_Witness ==
    /\ published # None
    /\ Len(NODES) = 2
    /\ \E r \in Readers : ret[r] # None /\ ret[r][1].nodes[NODES[2]].status = "error"

\* C4: every value get_status returns is the no-data value or the whole
\* (last_updated, nodes) pair of one published snapshot, whose nodes mapping
\* is completely filled in.
C4_Whole(v) ==
    \/ v = Sentinel
    \/ /\ published # None
       /\ v = published[1]
       /\ DOMAIN v.nodes = NodeSet

C4_NoTornRead ==
    /\ C4_Whole(GetStatusValue(cache))
    /\ \A r \in Readers : ret[r] # None => C4_Whole(ret[r][1])

\* C4 witness: a reader holds a snapshot of the second or later publication
\* while the refresh thread is about to publish again and another reader is
\* inside get_status
C4_Witness ==
    /\ pc["bg"] = "acquire"
    /\ published # None
    /\ result["bg"] # published[1]
    /\ \E r1, r2 \in Readers :
          /\ r1 # r2
          /\ ret[r1] = published
          /\ rpc[r2] = "locked"

\* C5: two get_status calls with no publication between them return equal
\* values, and a read leaves the cache as it was.
C5_SameBetweenPublications ==
    \A r1, r2 \in Readers : (ret[r1] # None /\ ret[r2] # None) => ret[r1] = ret[r2]

C5_ReadLeavesCache ==
    \A r \in Readers : (rpc[r] = "locked" /\ rpc'[r] = "idle") => cache' = cache

C5_ReadIdempotent == [](C5_SameBetweenPublications) /\ [][C5_ReadLeavesCache]_vars

\* C5 witness: two readers have each been returned the published snapshot
C5_Witness ==
    /\ published # None
    /\ \E r1, r2 \in Readers : r1 # r2 /\ ret[r1] = published /\ ret[r2] = published

\* C6: the cache lock is never held by a refreshing thread while probes are
\* launched, run or awaited; a refreshing thread holds it only at the swap,
\* with the snapshot already built; so during a collection the lock is free
\* or held by a reader, which can finish.
C6_LockOnlyAtSwap ==
    /\ \A t \in Updaters :
          cache_lock = t => /\ pc[t] = "swap"
                      /\ Unfinished(t) = {}
                      /\ DOMAIN result[t] # {}
    /\ (\E t \in Updaters : InCollect(t)) => cache_lock \in Readers \cup {"free"}
    /\ \A r \in Readers : cache_lock = r => rpc[r] = "locked"

\* C6 witness: a reader is inside get_status, past the lock, while the
\* background collection waits for a probe that is still running
C6_Witness ==
    /\ pc["bg"] = "await"
    /\ InFlight("bg") # {}
    /\ \E r \in Readers : cache_lock = r /\ rpc[r] = "locked"

\* C7: the background loop is started, and start_collector returns, only
\* after a snapshot has been published; from then on get_status returns a
\* published snapshot, never the no-data value.
C7_StartupOrder ==
    /\ pc["bg"] # "unstarted" => published # None
    /\ pc["main"] = "returned" =>
          /\ published # None
          /\ pc["bg"] # "unstarted"
          /\ GetStatusValue(cache) # Sentinel
          /\ \A r \in Readers : ret[r] # None => ret[r][1] # Sentinel

\* C7 witness: start_collector has returned, the loop has not yet run a
\* cycle, and a reader has been returned the snapshot of the initial pass
C7_Witness ==
    /\ pc["main"] = "returned"
    /\ pc["bg"] = "sleep"
    /\ \E r \in Readers : ret[r] # None /\ ret[r] = published

\* C8: once started the background loop never ends, and a cycle that failed
\* with an exception is followed by a later cycle.
C8_LoopPoints == UpdatePoints \cup {"sleep"}

C8_StaysInLoop == pc["bg"] # "unstarted" => pc'["bg"] \in C8_LoopPoints

C8_LoopSurvives ==
    /\ [][C8_StaysInLoop]_vars
    /\ (pc["bg"] = "raise") ~> (pc["bg"] = "pool")

\* C8 witness: an exception has escaped the collection of a background cycle
C8_Witness ==
    /\ pc["bg"] = "raise"
    /\ pc["main"] = "returned"

\* C9: at most one _update_cache is in progress at any time; _collect_all is
\* left, by return or by exception, only with every probe finished; and a
\* thread that is not inside _update_cache (before start, asleep, returned)
\* has no probe unfinished and does not hold the lock.
C9_NoOverlap ==
    /\ ~(InUpdate("main") /\ InUpdate("bg"))
    /\ \A t \in Updaters : (InUpdate(t) /\ ~InCollect(t)) => Unfinished(t) = {}
    /\ \A t \in Updaters :
          ~InUpdate(t) => /\ Unfinished(t) = {}
                          /\ DOMAIN fut[t] = {}
                          /\ cache_lock # t
    /\ InUpdate("bg") => pc["main"] = "returned"

\* C9 witness: the background cycle has a probe running after the initial
\* pass published
C9_Witness ==
    /\ pc["main"] = "returned"
    /\ pc["bg"] = "await"
    /\ InFlight("bg") # {}
    /\ published # None

\* C10: a probe whose command timed out gives status error, the message
\* "Connection timeout", and no gpus and no users.
C10_TimeoutResult ==
    \A t \in Updaters : \A n \in DOMAIN data[t] :
        OutcomeOf(t, n).kind = "timeout" =>
            data[t][n] = [status |-> "error", gpus |-> <<>>, users |-> <<>>,
                          message |-> Some(ConnectionTimeout)]

\* C10 witness: the result of a timed-out probe has been stored
C10_Witness ==
    \E n \in DOMAIN data["main"] : OutcomeOf("main", n) = OutTimeout

\* the fallback text as the specification words it
C11_CommandFailed ==
    <<"c", "o", "m", "m", "a", "n", "d", " ", "f", "a", "i", "l", "e", "d">>

\* the message of a command that exited with a non-zero status, the text
\* fallback standing in when both streams are empty once trimmed
C11_Message(o, fallback) ==
    LET err == Strip(o.stderr)
        out == Strip(o.stdout)
    IN  IF err # <<>> THEN Take(err, MsgLimit)
        ELSE IF out # <<>> THEN Take(out, MsgLimit)
        ELSE fallback

C11_Failed(t, n) ==
    /\ n \in DOMAIN data[t]
    /\ OutcomeOf(t, n).kind = "completed"
    /\ OutcomeOf(t, n).returncode # 0

\* C11 (as amended): a command that exits with a non-zero status gives
\* status "error" with no GPU records and no users; its message is the first
\* 200 characters of the trimmed standard error, or of the trimmed standard
\* output when the trimmed standard error is empty, and it is the fallback
\* text "nvidia-smi failed" exactly when both streams are empty once trimmed.
C11_NonZeroExit ==
    \A t \in Updaters : \A n \in NodeSet :
        C11_Failed(t, n) =>
            /\ data[t][n] = NodeStatus("error", <<>>, <<>>,
                                       Some(C11_Message(OutcomeOf(t, n), NvidiaSmiFailed)))
            /\ (data[t][n].message = Some(NvidiaSmiFailed)
                    <=> (Strip(OutcomeOf(t, n).stderr) = <<>>
                            /\ Strip(OutcomeOf(t, n).stdout) = <<>>))

\* C11 (as the claim words it): the same, the fallback text being
\* "command failed".
C11_AsClaimed ==
    \A t \in Updaters : \A n \in NodeSet :
        C11_Failed(t, n) =>
            data[t][n] = NodeStatus("error", <<>>, <<>>,
                                    Some(C11_Message(OutcomeOf(t, n), C11_CommandFailed)))

\* a command failed with only whitespace on standard error and more than 200
\* characters on standard output: the message is the first 200 of them
C11_Witness ==
    \E n \in NodeSet :
        /\ C11_Failed("main", n)
        /\ OutcomeOf("main", n).stderr = <<"\n", " ">>
        /\ OutcomeOf("main", n).stdout = LongText
        /\ data["main"][n].message = Some([i \in 1..MsgLimit |-> "x"])

\* the shape of one per-node result
C12_Shape(e) ==
    /\ e.status \in {"ok", "error"}
    /\ (e.message # None <=> e.status = "error")
    /\ (e.status = "error" => e.gpus = <<>> /\ e.users = <<>>)
    /\ (e.message # None => Len(e.message[1]) <= MsgLimit)

\* the per-node entries of a snapshot d, none when d is the empty dict
C12_Entries(d) == IF DOMAIN d = {} THEN {} ELSE {d.nodes[n] : n \in DOMAIN d.nodes}

\* C12: every per-node result, in the mapping _collect_all fills, in the
\* snapshot _update_cache builds and in the published snapshot, has status
\* "ok" or "error", a message exactly when the status is "error", no GPU
\* records and no users when the status is "error", and a message of at most
\* 200 characters.
C12_ResultShape ==
    /\ \A t \in Updaters : \A n \in DOMAIN data[t] : C12_Shape(data[t][n])
    /\ \A t \in Updaters : \A e \in C12_Entries(result[t]) : C12_Shape(e)
    /\ \A e \in C12_Entries(cache) : C12_Shape(e)

\* a published snapshot holds an error entry whose message was cut to
\* exactly 200 characters
C12_Witness ==
    \E e \in C12_Entries(cache) :
        /\ e.status = "error"
        /\ e.message = Some([i \in 1..MsgLimit |-> "x"])

\* the entry of a node whose probe succeeded with two GPU rows and the user
\* alice, and of a node whose probe timed out
C13_OkEntry(e) ==
    /\ e.status = "ok"
    /\ Len(e.gpus) = 2
    /\ e.gpus[1].index = 0 /\ e.gpus[2].index = 1
    /\ e.users = <<Alice>>
    /\ e.message = None
C13_TimeoutEntry(e) ==
    e = [status |-> "error", gpus |-> <<>>, users |-> <<>>,
         message |-> Some(ConnectionTimeout)]
C13_Matches(e, o) ==
    /\ o = OutOk => C13_OkEntry(e)
    /\ o = OutTimeout => C13_TimeoutEntry(e)
    /\ o \in {OutOk, OutTimeout}

\* C13: the step that publishes a snapshot stores, for each configured node,
\* the outcome of that node's own probe of the cycle that publishes, whatever
\* the order in which the probes completed and whatever earlier cycles found.
C13_OwnProbe ==
    [][\A t \in Updaters :
          (pc[t] = "swap" /\ pc'[t] # "swap") =>
              /\ DOMAIN cache'.nodes = NodeSet
              /\ \A n \in NodeSet : C13_Matches(cache'.nodes[n], OutcomeOf(t, n))]_vars

\* a later cycle over [A, B] is about to publish A as succeeded and B as
\* timed out while the snapshot in the cache says the opposite
C13_Witness ==
    /\ NODES = <<"A", "B">>
    /\ pc["bg"] = "swap"
    /\ OutcomeOf("bg", "A") = OutOk
    /\ OutcomeOf("bg", "B") = OutTimeout
    /\ C13_OkEntry(result["bg"].nodes["A"])
    /\ C13_TimeoutEntry(result["bg"].nodes["B"])
    /\ C13_TimeoutEntry(cache.nodes["A"])
    /\ C13_OkEntry(cache.nodes["B"])

\* a text without its leading and without its trailing whitespace
RECURSIVE C14_TrimLeft(_)
C14_TrimLeft(s) ==
    IF s # <<>> /\ Head(s) \in Whitespace THEN C14_TrimLeft(Tail(s)) ELSE s
RECURSIVE C14_TrimRight(_)
C14_TrimRight(s) ==
    IF s # <<>> /\ s[Len(s)] \in Whitespace
    THEN C14_TrimRight(SubSeq(s, 1, Len(s) - 1)) ELSE s
\* the token cur as a list: empty when nothing is left of it once trimmed
C14_Keep(cur) ==
    LET u == C14_TrimRight(C14_TrimLeft(cur))
    IN  IF u = <<>> THEN <<>> ELSE <<u>>
\* the comma-separated tokens of s in their order, read character by
\* character, cur being the token read so far
RECURSIVE C14_Scan(_, _)
C14_Scan(s, cur) ==
    IF s = <<>> THEN C14_Keep(cur)
    ELSE IF Head(s) = "," THEN C14_Keep(cur) \o C14_Scan(Tail(s), <<>>)
    ELSE C14_Scan(Tail(s), Append(cur, Head(s)))

C14_Parsed(t, n) ==
    /\ n \in DOMAIN data[t]
    /\ data[t][n].status = "ok"

\* C14: _parse_users returns the empty list when the marker is absent and
\* when the text after the first marker is empty, whitespace only or commas
\* only; otherwise it returns the comma-separated tokens of the text after
\* the first marker, in their order, each trimmed, the tokens that are empty
\* once trimmed dropped; "alice,bob,,  carol ," gives [alice, bob, carol].
C14_ParseUsers ==
    \A t \in Updaters : \A n \in NodeSet :
        C14_Parsed(t, n) =>
            LET out == OutcomeOf(t, n).stdout
                users == data[t][n].users
            IN  /\ out \in UnmarkedOutputs => users = <<>>
                /\ \A ht \in MarkedOutputs :
                       out = WithMarker(ht) =>
                           /\ users = C14_Scan(ht[2], <<>>)
                           /\ (\A i \in 1..Len(ht[2]) : ht[2][i] \in Whitespace)
                                  => users = <<>>
                           /\ (\A i \in 1..Len(ht[2]) : ht[2][i] = ",")
                                  => users = <<>>
                           /\ ht[2] = ListTail
                                  => users = <<Alice, <<"b", "o", "b">>,
                                               <<"c", "a", "r", "o", "l">>>>

\* the output "---USERS---alice,bob,,  carol ," was parsed into three users
C14_Witness ==
    \E n \in NodeSet :
        /\ C14_Parsed("main", n)
        /\ OutcomeOf("main", n).stdout = Marker \o ListTail
        /\ Len(data["main"][n].users) = 3

\* _collect_all has been left, by its return or by an exception
C15_CollectionOver(t) == pc[t] \in {"build", "raise"}
\* the probe of node n has been run in the collection of thread t
C15_HasRun(t, n) == n \in DOMAIN fut[t] /\ fut[t][n].st \in {"done", "yielded"}
\* no more than min(20, 2N) probes are in flight
C15_Ceiling == \A t \in Updaters : Cardinality(InFlight(t)) <= Min(PoolCap, 2 * Len(NODES))

\* C15: during a collection over N nodes no more than min(20, 2N) probes are
\* in flight at a time, and every one of the N probes is run: once the
\* collection is over, the probe of each configured node has been run.
C15_BoundedAndComplete ==
    /\ C15_Ceiling
    /\ \A t \in Updaters :
           C15_CollectionOver(t) => \A n \in NodeSet : C15_HasRun(t, n)

\* the step ends the refresh cycle of thread t, by publishing or by raising
C16_CycleEnds(t) == InUpdate(t) /\ pc'[t] \notin UpdatePoints
\* node n has one probe in the cycle of thread t, and that probe has ended
C16_Probed(t, n) == n \in DOMAIN fut[t] /\ fut[t][n].out # None

\* C16: every refresh cycle probes each configured node once: when a cycle
\* ends, each configured node has its one probe of that cycle, ended with an
\* outcome, so that a node whose probe failed in one cycle is probed anew in
\* the next.
C16_OncePerCycle ==
    [][\A t \in Updaters :
          C16_CycleEnds(t) => \A n \in NodeSet : C16_Probed(t, n)]_vars

\* the program points of a cycle that has not reached the building of its
\* snapshot, or that has failed
C17_BeforePublish == CollectPoints \cup {"raise"}
\* a cycle fails only out of _collect_all
C17_FailsInCollect ==
    \A t \in Updaters : pc'[t] = "raise" => pc[t] \in C17_BeforePublish
\* no step taken while a cycle is at those points changes the cache
C17_CacheKept ==
    \A t \in Updaters :
        pc[t] \in C17_BeforePublish => cache' = cache /\ published' = published
\* a failed cycle holds no lock, and the cache holds what was last published
C17_Previous ==
    \A t \in Updaters :
        pc[t] = "raise" =>
            /\ cache_lock # t
            /\ cache = (IF published = None THEN EmptyDict ELSE published[1])
            /\ \A r \in Readers : ret[r] # None => ret[r][1] = GetStatusValue(cache)

\* C17: a refresh cycle that fails publishes nothing: from its start to the
\* exception leaving _update_cache, and through the handling of the
\* exception, the cache stays what it was, so readers get the snapshot
\* published before the cycle.
C17_FailedCycleKeepsCache ==
    [](C17_Previous) /\ [][C17_FailsInCollect /\ C17_CacheKept]_vars

\* a background cycle has failed after a snapshot was published, and a
\* reader has been returned that snapshot
C17_Witness ==
    /\ pc["bg"] = "raise"
    /\ published # None
    /\ cache = published[1]
    /\ \E r \in Readers : ret[r] = published

\* the probe met one of the failures _query_node handles: a transport
\* exception, a timeout, a non-zero exit status, an exception raised while
\* the output of a successful command was parsed
C18_Failure(o) ==
    \/ o.kind \in {"timeout", "exception"}
    \/ o.kind = "completed" /\ (o.returncode # 0 \/ o.perr # None)
C18_First200(s) == IF Len(s) <= MsgLimit THEN s ELSE SubSeq(s, 1, MsgLimit)

\* C18: whichever failure the probe of a node meets, _query_node returns a
\* result of status "error" with a message of at most 200 characters: the
\* text "Connection timeout" for a timeout, the first 200 characters of the
\* exception's text for a transport or parsing exception; it never returns
\* status "ok".
C18_FailuresBecomeResults ==
    \A t \in Updaters : \A n \in DOMAIN data[t] :
        LET o == OutcomeOf(t, n)
            e == data[t][n]
        IN  C18_Failure(o) =>
                /\ e.status = "error"
                /\ e.message # None
                /\ Len(e.message[1]) <= MsgLimit
                /\ o.kind = "timeout" => e.message = Some(ConnectionTimeout)
                /\ o.kind = "exception" => e.message = Some(C18_First200(o.desc))
                /\ (o.kind = "completed" /\ o.returncode = 0)
                       => e.message = Some(C18_First200(o.perr[1]))

\* parsing the output of a command that exited with status 0 raised an
\* exception with a text of 201 characters: the node is returned as an
\* error with the first 200 of them
C18_Witness ==
    \E n \in DOMAIN data["main"] :
        /\ OutcomeOf("main", n).kind = "completed"
        /\ OutcomeOf("main", n).returncode = 0
        /\ OutcomeOf("main", n).perr = Some(LongText)
        /\ data["main"][n].status = "error"
        /\ Len(data["main"][n].message[1]) = MsgLimit

\* C19: a snapshot is immutable once published: whatever readers do to the
\* values they were returned, the cache holds the snapshot as it was
\* published, and a call of get_status returns it as it was published.
C19_Immutable ==
    /\ [](published # None => cache = published[1])
    /\ [][\A r \in Readers :
             (rpc[r] = "locked" /\ rpc'[r] = "idle" /\ published # None)
                 => ret'[r] = published]_vars

\* start_collector has raised: no background thread, nothing published, the
\* cache empty, every reader returned the no-data value
C20_NoData ==
    pc["main"] = "failed" =>
        /\ pc["bg"] = "unstarted"
        /\ cache = EmptyDict
        /\ published = None
        /\ \A r \in Readers : ret[r] # None => ret[r] = Some(Sentinel)
\* an exception of the initial refresh leaves start_collector, and
\* start_collector does not resume
C20_Propagates ==
    /\ pc["main"] = "raise" => pc'["main"] \in {"raise", "failed"}
    /\ pc["main"] = "failed" => pc'["main"] = "failed"

\* C20: when the initial refresh raises, the exception leaves
\* start_collector, the background thread is never started and the cache
\* stays in the no-data state for ever; only iterations of the background
\* loop swallow an exception and go on.
C20_InitialFailureFatal == [](C20_NoData) /\ [][C20_Propagates]_vars

\* the initial refresh of a dashboard with nodes has raised, and a reader
\* has since been returned the no-data value
C20_Witness ==
    /\ pc["main"] = "failed"
    /\ Len(NODES) >= 1
    /\ \E r \in Readers : ret[r] = Some(Sentinel)

====
